---- MODULE Spec2Model ----
\* A model of scripts/generate_benchmark_charts.py: the benchmark directory on
\* disk, BenchmarkVisualizer.run() step by step, and main() around it.
\*
\* Text is modelled as a sequence of string tokens (a token is a piece of the
\* text that the code never splits); a JSON object is a TLA+ record whose
\* domain is the set of keys present.
EXTENDS Integers, Sequences, FiniteSets, TLC

\* ---------------------------------------------------------------- bounds

\* Archive subdirectory names are 1..MaxDirs; the order of the integers is the
\* order in which sorted() puts the paths.
MaxDirs == 2

\* The longest "benchmarks" list of a run.
MaxSamples == 2

\* The wall clock is read in ticks 0..MaxClock, TicksPerSecond ticks a second.
MaxClock == 2

TicksPerSecond == 2

\* How many times the script is run on the same directory.
MaxInvocations == 2

\* ------------------------------------------------------- program constants

\* commit[:8]
CommitWidth == 8

\* std_dev_ns / 1000000
NsPerMs == 1000000

\* ------------------------------------------------------------ JSON values

None == "None"

\* dict.get(key, default)
Get(d, k, default) == IF k \in DOMAIN d THEN d[k] ELSE default

Names == 1..MaxDirs

Min2(a, b) == IF a < b THEN a ELSE b

Max2(a, b) == IF a < b THEN b ELSE a

\* s[:n]
Prefix(s, n) == SubSeq(s, 1, Min2(n, Len(s)))

\* sep.join(parts), each part a token sequence
RECURSIVE Join(_, _)
Join(parts, sep) ==
  IF parts = <<>> THEN <<>>
  ELSE IF Len(parts) = 1 THEN parts[1]
  ELSE parts[1] \o sep \o Join(Tail(parts), sep)

\* needle occurs in text as a contiguous run of tokens
Contains(text, needle) ==
  \E i \in 0..(Len(text) - Len(needle)) :
    SubSeq(text, i + 1, i + Len(needle)) = needle

\* sorted(): insertion sort of a sequence of names
RECURSIVE Insert(_, _)
Insert(x, s) ==
  IF s = <<>> THEN <<x>>
  ELSE IF x <= Head(s) THEN <<x>> \o s
  ELSE <<Head(s)>> \o Insert(x, Tail(s))

\* Mutant of Sorted: the members are taken in the order iterdir() yields them.
Unsorted(s) == s

RECURSIVE Sorted(_)
Sorted(s) == IF s = <<>> THEN <<>> ELSE Insert(Head(s), Sorted(Tail(s)))

\* All orders in which iterdir() may yield the members of a set.
Orders(S) ==
  {s \in [1..Cardinality(S) -> S] : \A i, j \in DOMAIN s : i # j => s[i] # s[j]}

\* ------------------------------------------------------------- exceptions

\* The exception classes the script can meet; every one derives from Exception.
ExceptionClasses ==
  {"JSONDecodeError", "FileNotFoundError", "UnicodeDecodeError",
   "AttributeError", "KeyError", "FileExistsError", "NotADirectoryError",
   "IsADirectoryError", "ChartError"}

\* Mutant of LoadCaught: the clause names FileNotFoundError alone.
LoadCaughtNarrow == {"FileNotFoundError"}

\* except (json.JSONDecodeError, FileNotFoundError) in load_benchmark_data
LoadCaught == {"JSONDecodeError", "FileNotFoundError"}

\* Mutant of MainCaught: main() repeats the clause of load_benchmark_data.
MainCaughtNarrow == {"JSONDecodeError", "FileNotFoundError"}

\* except Exception in main()
MainCaught == ExceptionClasses

Ok(v) == [exc |-> "none", value |-> v]

Raised(e) == [exc |-> e, value |-> <<>>]

\* open(path) followed by json.load(f), by what the file holds
json_load(file) ==
  CASE file.kind = "json"        -> Ok(file.value)
    [] file.kind = "malformed"   -> Raised("JSONDecodeError")
    [] file.kind = "dangling"    -> Raised("FileNotFoundError")
    [] file.kind = "undecodable" -> Raised("UnicodeDecodeError")

IsObject(j) == j.type = "object"

\* ---------------------------------------------------- load_benchmark_data

\* The archive loop: subdirs is sorted(self.archive_dir.iterdir()).
RECURSIVE load_archive(_, _, _)
load_archive(subdirs, entries, data) ==
  IF subdirs = <<>> THEN Ok(data)
  ELSE LET archive_subdir == entries[Head(subdirs)]
           rest == Tail(subdirs)
       IN IF ~archive_subdir.isdir THEN load_archive(rest, entries, data)
          ELSE IF archive_subdir.parsed = <<>> THEN load_archive(rest, entries, data)
          ELSE LET r == json_load(archive_subdir.parsed[1])
               IN IF r.exc = "none"
                    THEN load_archive(rest, entries, Append(data, r.value))
                  ELSE IF r.exc \in LoadCaught
                    THEN load_archive(rest, entries, data)
                  ELSE Raised(r.exc)

\* Mutant of any_same_timestamp: only the first loaded run is compared.
first_same_timestamp(data, latest_data) ==
  IF data = <<>> THEN [exc |-> "none", value |-> FALSE]
  ELSE IF Head(data).type # "object" \/ latest_data.type # "object"
    THEN [exc |-> "AttributeError", value |-> <<>>]
  ELSE [exc |-> "none",
        value |-> (IF "timestamp" \in DOMAIN Head(data).obj
                     THEN Head(data).obj.timestamp ELSE None)
                  = (IF "timestamp" \in DOMAIN latest_data.obj
                       THEN latest_data.obj.timestamp ELSE None)]

\* any(d.get('timestamp') == latest_data.get('timestamp') for d in data):
\* scanned left to right, stopping at the first match; .get on a JSON value
\* that is no object raises AttributeError.
RECURSIVE any_same_timestamp(_, _)
any_same_timestamp(data, latest_data) ==
  IF data = <<>> THEN Ok(FALSE)
  ELSE IF ~IsObject(Head(data)) \/ ~IsObject(latest_data)
    THEN Raised("AttributeError")
  ELSE IF Get(Head(data).obj, "timestamp", None)
            = Get(latest_data.obj, "timestamp", None)
    THEN Ok(TRUE)
  ELSE any_same_timestamp(Tail(data), latest_data)

\* The "latest" part: latest.json is the presence marker, the data is read
\* from the first *_parsed.json of the latest directory.
load_latest(latest, data) ==
  IF ~latest.sentinel THEN Ok(data)
  ELSE IF latest.parsed = <<>> THEN Ok(data)
  ELSE LET r == json_load(latest.parsed[1])
       IN IF r.exc # "none"
            THEN (IF r.exc \in LoadCaught THEN Ok(data) ELSE Raised(r.exc))
          ELSE LET dup == any_same_timestamp(data, r.value)
               IN IF dup.exc # "none" THEN Raised(dup.exc)
                  ELSE IF dup.value THEN Ok(data)
                  ELSE Ok(Append(data, r.value))

\* iterdir_order is the order in which iterdir() yields the archive's members.
load_benchmark_data(archive, latest, iterdir_order) ==
  LET fromArchive ==
        IF archive.kind = "absent" THEN Ok(<<>>)
        ELSE IF archive.kind = "file" THEN Raised("NotADirectoryError")
        ELSE load_archive(Sorted(iterdir_order), archive.entries, <<>>)
  IN IF fromArchive.exc # "none" THEN fromArchive
     ELSE load_latest(latest, fromArchive.value)

\* ------------------------------------------------- _generate_text_summary

NoDataText == <<"No benchmark data available for visualization.\n">>

Unknown == <<"u", "n", "k", "n", "o", "w", "n">>

Digit(n) == ToString(n)

\* f"{num/den:.2f}" for whole numbers num >= 0, den > 0
Fmt2(num, den) ==
  LET h == (200 * num + den) \div (2 * den)
  IN ToString(h \div 100) \o "." \o Digit((h % 100) \div 10) \o Digit(h % 10)

RECURSIVE SumSeq(_)
SumSeq(s) == IF s = <<>> THEN 0 ELSE Head(s) + SumSeq(Tail(s))

RECURSIVE MinSeq(_)
MinSeq(s) == IF Len(s) = 1 THEN s[1] ELSE Min2(Head(s), MinSeq(Tail(s)))

RECURSIVE MaxSeq(_)
MaxSeq(s) == IF Len(s) = 1 THEN s[1] ELSE Max2(Head(s), MaxSeq(Tail(s)))

\* The keys of the groups dict, in insertion order.
RECURSIVE group_order(_, _)
group_order(benchmarks, seen) ==
  IF benchmarks = <<>> THEN seen
  ELSE LET g == Head(benchmarks).group
       IN group_order(Tail(benchmarks),
                      IF \E i \in DOMAIN seen : seen[i] = g
                        THEN seen ELSE Append(seen, g))

\* groups[group]: the mean_ms of the benchmarks of one group, in order
RECURSIVE group_times(_, _)
group_times(benchmarks, g) ==
  IF benchmarks = <<>> THEN <<>>
  ELSE IF Head(benchmarks).group = g
    THEN <<Head(benchmarks).mean_ms>> \o group_times(Tail(benchmarks), g)
  ELSE group_times(Tail(benchmarks), g)

group_line(g, times) ==
  <<"- **", g, "**: ", Fmt2(SumSeq(times), Len(times)), "ms avg (min: ",
    Fmt2(MinSeq(times), 1), "ms, max: ", Fmt2(MaxSeq(times), 1), "ms)">>

SummaryHeader == "## Performance Summary (Text)\n"

\* The summary of one run: data[-1], or {} in place of it.
text_summary_of(latest) ==
  IF ~IsObject(latest) THEN Raised("AttributeError")
  ELSE
    LET benchmarks == Get(latest.obj, "benchmarks", <<>>)
        head ==
          << <<SummaryHeader>>,
             <<"**Last Updated**: ", Get(latest.obj, "timestamp", "unknown")>>,
             <<"**Commit**: ">> \o Prefix(Get(latest.obj, "commit", Unknown), CommitWidth),
             <<"**Total Benchmarks**: ", ToString(Len(benchmarks)), "\n">> >>
    IN IF benchmarks = <<>> THEN Ok(Join(head, <<"\n">>))
       ELSE IF \E i \in DOMAIN benchmarks :
                 {"group", "mean_ms"} \ DOMAIN benchmarks[i] # {}
         THEN Raised("KeyError")
       ELSE LET groups == group_order(benchmarks, <<>>)
                lines == [i \in DOMAIN groups |->
                            group_line(groups[i], group_times(benchmarks, groups[i]))]
            IN Ok(Join(head \o <<<<"### Performance by Group">>>> \o lines \o <<<<>>>>,
                       <<"\n">>))

\* Mutant of generate_text_summary: the "if not data" return is missing, and
\* the summary is made of {} when there is no run.
generate_text_summary_unguarded(data) ==
  text_summary_of(IF data = <<>> THEN [type |-> "object", obj |-> <<>>]
                  ELSE data[Len(data)])

generate_text_summary(data) ==
  IF data = <<>> THEN Ok(NoDataText)
  ELSE text_summary_of(data[Len(data)])

\* --------------------------------------------- generate_performance_trends

\* VISUALIZATION_AVAILABLE is the state variable vis (set at import).

AllSampleKeys == {"name", "group", "mean_ms", "std_dev_ns"}

\* The rows one run adds to df_data.
entry_rows(entry) ==
  IF ~IsObject(entry) THEN Raised("AttributeError")
  ELSE LET timestamp == Get(entry.obj, "timestamp", "")
           commit == Prefix(Get(entry.obj, "commit", Unknown), CommitWidth)
           benchmarks == Get(entry.obj, "benchmarks", <<>>)
       IN IF \E i \in DOMAIN benchmarks : AllSampleKeys \ DOMAIN benchmarks[i] # {}
            THEN Raised("KeyError")
          ELSE Ok([i \in DOMAIN benchmarks |->
                    [timestamp |-> timestamp,
                     commit |-> commit,
                     benchmark |-> benchmarks[i].name,
                     group |-> benchmarks[i].group,
                     mean_ms |-> benchmarks[i].mean_ms,
                     std_dev_ms |-> benchmarks[i].std_dev_ns \div NsPerMs]])

\* df_data: the rows of all runs, or the first exception met on the way.
RECURSIVE flatten(_, _)
flatten(data, df_data) ==
  IF data = <<>> THEN Ok(df_data)
  ELSE LET r == entry_rows(Head(data))
       IN IF r.exc # "none" THEN r
          ELSE flatten(Tail(data), df_data \o r.value)

\* The four charts, in the order they are drawn and saved.
ChartFiles ==
  <<"performance_trends.png", "group_performance.png",
    "recent_changes.png", "performance_distribution.png">>

ChartRefs ==
  << <<"![Performance Trends](./performance_trends.png)\n">>,
     <<"![Group Performance](./group_performance.png)\n">>,
     <<"![Recent Changes](./recent_changes.png)\n">>,
     <<"![Performance Distribution](./performance_distribution.png)\n">> >>

Trends(exc, value, images) == [exc |-> exc, value |-> value, images |-> images]

\* Mutant of generate_performance_trends: VISUALIZATION_AVAILABLE is not
\* consulted, the charts are drawn whenever there are rows.
generate_performance_trends_unchecked(data, visualization_available, fault) ==
  IF data = <<>>
    THEN LET t == generate_text_summary(data) IN Trends(t.exc, t.value, {})
  ELSE LET df == flatten(data, <<>>)
       IN IF df.exc # "none" THEN Trends(df.exc, <<>>, {})
          ELSE IF df.value = <<>>
            THEN LET t == generate_text_summary(data) IN Trends(t.exc, t.value, {})
          ELSE IF fault > 0
            THEN Trends("ChartError", <<>>, {ChartFiles[i] : i \in 1..(fault - 1)})
          ELSE Trends("none", Join(ChartRefs, <<"\n">>),
                      {ChartFiles[i] : i \in DOMAIN ChartFiles})

\* fault = 0: pandas, seaborn and matplotlib draw and save all four charts;
\* fault = k > 0: the library raises while chart k is made, charts 1..k-1
\* being saved already.
generate_performance_trends(data, visualization_available, fault) ==
  IF ~visualization_available \/ data = <<>>
    THEN LET t == generate_text_summary(data) IN Trends(t.exc, t.value, {})
  ELSE LET df == flatten(data, <<>>)
       IN IF df.exc # "none" THEN Trends(df.exc, <<>>, {})
          ELSE IF df.value = <<>>
            THEN LET t == generate_text_summary(data) IN Trends(t.exc, t.value, {})
          ELSE IF fault > 0
            THEN Trends("ChartError", <<>>, {ChartFiles[i] : i \in 1..(fault - 1)})
          ELSE Trends("none", Join(ChartRefs, <<"\n">>),
                      {ChartFiles[i] : i \in DOMAIN ChartFiles})

\* ----------------------------------------------------- generate_index_html

\* Mutant of strftime: the format ends in the fraction of the second (%f).
strftime_fraction(now) ==
  "2026-01-01 00:00:0" \o ToString(now \div TicksPerSecond)
    \o "." \o ToString(now % TicksPerSecond)

\* datetime.now().strftime('%Y-%m-%d %H:%M:%S'): the clock cut to whole seconds
strftime(now) == "2026-01-01 00:00:0" \o ToString(now \div TicksPerSecond)

TitleText == "LSPbridge Benchmark Dashboard"

\* Mutant of generate_index_html: the content is embedded without its last token
\* (as trends_content.rstrip() would leave it).
generate_index_html_stripped(trends_content, now) ==
  <<"<!DOCTYPE html><html lang=en><head><title>", TitleText,
    "</title><style/></head><body><div class=header/><div class=content>",
    "<div class=metric><strong>Last Updated</strong><br>", strftime(now),
    "</div><div class=metric>7 Benchmark Groups</div>",
    "<div class=metric>15% Regression Alert</div>">>
  \o SubSeq(trends_content, 1, Len(trends_content) - 1)
  \o <<"<h2>Available Reports</h2><ul/></div><div class=footer>Generated by ",
       TitleText, " | <a>View Source</a></div></body></html>">>

generate_index_html(trends_content, now) ==
  <<"<!DOCTYPE html><html lang=en><head><title>", TitleText,
    "</title><style/></head><body><div class=header/><div class=content>",
    "<div class=metric><strong>Last Updated</strong><br>", strftime(now),
    "</div><div class=metric>7 Benchmark Groups</div>",
    "<div class=metric>15% Regression Alert</div>">>
  \o trends_content
  \o <<"<h2>Available Reports</h2><ul/></div><div class=footer>Generated by ",
       TitleText, " | <a>View Source</a></div></body></html>">>

\* The text run() writes to README.md.
readme_text(trends_content, now) ==
  <<"# ", TitleText, "\n\n">>
  \o trends_content
  \o <<"\n\n## Navigation\n", "## Performance Monitoring\n",
       "## Regression Detection\n", "Generated: ", strftime(now), "\n">>

\* ------------------------------------------------------------------ state

VARIABLES
  benchDir,        \* BENCHMARK_DIR on disk: "absent", "file" or "dir"
  archive,         \* <benchmark_dir>/archive: its kind and its members
  latest,          \* <benchmark_dir>/latest: latest.json present, *_parsed.json files
  reports,         \* <benchmark_dir>/reports: "absent", "file" or "dir"
  blocked,         \* names under reports/ that exist as directories
  files,           \* the text files written under reports/, name -> content
  images,          \* the chart images saved under reports/
  vis,             \* VISUALIZATION_AVAILABLE
  clock,           \* the wall clock, in ticks
  pc,              \* where main() stands
  ranRun,          \* run() has been entered in this invocation
  data,            \* run()'s local: the loaded runs
  trends_content,  \* run()'s local
  html_content,    \* run()'s local
  htmlAt,          \* the clock when generate_index_html was called
  exc,             \* the exception that ended run(), or "none"
  exitStatus,      \* the status the process exits with
  invocation,      \* the number of this invocation of the script
  prev             \* the generate_index_html call of the invocation before

vars ==
  <<benchDir, archive, latest, reports, blocked, files, images, vis, clock, pc,
    ranRun, data, trends_content, html_content, htmlAt, exc, exitStatus,
    invocation, prev>>

fs == <<benchDir, archive, latest, reports, blocked, files, images>>

locals == <<data, trends_content, html_content, htmlAt>>

\* An exception leaves run(); main() logs it if its except clause catches it,
\* otherwise the interpreter ends with status 1.
Raise(e) ==
  /\ pc' = "done"
  /\ exc' = e
  /\ exitStatus' = IF e \in MainCaught THEN 0 ELSE 1

\* open(path, 'w') and write: the file is created or overwritten
WriteFile(name, content) ==
  files' = [n \in DOMAIN files \cup {name} |-> IF n = name THEN content ELSE files[n]]

\* Mutant of MainStart: the return after mkdir is missing.
MainStartNoReturn ==
  /\ pc = "start"
  /\ benchDir' = (IF benchDir = "absent" THEN "dir" ELSE benchDir)
  /\ pc' = "mkdir"
  /\ UNCHANGED <<archive, latest, reports, blocked, files, images, vis, clock,
                 ranRun, locals, exc, exitStatus, invocation, prev>>

\* main() up to the call of run(): the directory is created and main returns,
\* or the visualizer is built.
MainStart ==
  /\ pc = "start"
  /\ IF benchDir = "absent"
       THEN /\ benchDir' = "dir"
            /\ pc' = "done"
       ELSE /\ pc' = "mkdir"
            /\ UNCHANGED benchDir
  /\ UNCHANGED <<archive, latest, reports, blocked, files, images, vis, clock,
                 ranRun, locals, exc, exitStatus, invocation, prev>>

\* run(): self.reports_dir.mkdir(exist_ok=True)
RunMkdir ==
  /\ pc = "mkdir"
  /\ ranRun' = TRUE
  /\ IF benchDir = "file"
       THEN Raise("NotADirectoryError") /\ UNCHANGED reports
     ELSE IF reports = "file"
       THEN Raise("FileExistsError") /\ UNCHANGED reports
     ELSE /\ reports' = "dir"
          /\ pc' = "load"
          /\ UNCHANGED <<exc, exitStatus>>
  /\ UNCHANGED <<benchDir, archive, latest, blocked, files, images, vis, clock,
                 locals, invocation, prev>>

\* run(): data = self.load_benchmark_data()
Load ==
  /\ pc = "load"
  /\ \E iterdir_order \in Orders(DOMAIN archive.entries) :
       LET r == load_benchmark_data(archive, latest, iterdir_order)
       IN IF r.exc # "none"
            THEN Raise(r.exc) /\ UNCHANGED data
            ELSE /\ data' = r.value
                 /\ pc' = "trends"
                 /\ UNCHANGED <<exc, exitStatus>>
  /\ UNCHANGED <<fs, vis, clock, ranRun, trends_content, html_content, htmlAt,
                 invocation, prev>>

\* run(): trends_content = self.generate_performance_trends(data)
GenerateTrends ==
  /\ pc = "trends"
  /\ \E fault \in 0..Len(ChartFiles) :
       LET r == generate_performance_trends(data, vis, fault)
       IN /\ images' = images \cup r.images
          /\ IF r.exc # "none"
               THEN Raise(r.exc) /\ UNCHANGED trends_content
               ELSE /\ trends_content' = r.value
                    /\ pc' = "html"
                    /\ UNCHANGED <<exc, exitStatus>>
  /\ UNCHANGED <<benchDir, archive, latest, reports, blocked, files, vis, clock,
                 ranRun, data, html_content, htmlAt, invocation, prev>>

\* run(): html_content = self.generate_index_html(trends_content); the call
\* reads the clock, which has moved on by any amount since it was last read.
GenerateIndexHtml ==
  /\ pc = "html"
  /\ \E now \in clock..MaxClock :
       /\ clock' = now
       /\ htmlAt' = now
       /\ html_content' = generate_index_html(trends_content, now)
  /\ pc' = "write_index"
  /\ UNCHANGED <<fs, vis, ranRun, data, trends_content, exc, exitStatus,
                 invocation, prev>>

\* run(): index.html is written
WriteIndex ==
  /\ pc = "write_index"
  /\ IF "index.html" \in blocked
       THEN Raise("IsADirectoryError") /\ UNCHANGED files
       ELSE /\ WriteFile("index.html", html_content)
            /\ pc' = "write_readme"
            /\ UNCHANGED <<exc, exitStatus>>
  /\ UNCHANGED <<benchDir, archive, latest, reports, blocked, images, vis, clock,
                 ranRun, locals, invocation, prev>>

\* run(): README.md is written, run() returns and main() after it
WriteReadme ==
  /\ pc = "write_readme"
  /\ \E now \in clock..MaxClock :
       /\ clock' = now
       /\ IF "README.md" \in blocked
            THEN Raise("IsADirectoryError") /\ UNCHANGED files
            ELSE /\ WriteFile("README.md", readme_text(trends_content, now))
                 /\ pc' = "done"
                 /\ UNCHANGED <<exc, exitStatus>>
  /\ UNCHANGED <<benchDir, archive, latest, reports, blocked, images, vis,
                 ranRun, locals, invocation, prev>>

NoCall == [valid |-> FALSE, trends |-> <<>>, html |-> <<>>, at |-> 0]

\* The script is started again on the directory as the last invocation left it.
Reinvoke ==
  /\ pc = "done"
  /\ invocation < MaxInvocations
  /\ invocation' = invocation + 1
  /\ prev' = IF html_content # <<>>
               THEN [valid |-> TRUE, trends |-> trends_content,
                     html |-> html_content, at |-> htmlAt]
               ELSE prev
  /\ pc' = "start"
  /\ ranRun' = FALSE
  /\ data' = <<>>
  /\ trends_content' = <<>>
  /\ html_content' = <<>>
  /\ htmlAt' = 0
  /\ exc' = "none"
  /\ exitStatus' = 0
  /\ UNCHANGED <<fs, vis, clock>>

Next ==
  \/ MainStart
  \/ RunMkdir
  \/ Load
  \/ GenerateTrends
  \/ GenerateIndexHtml
  \/ WriteIndex
  \/ WriteReadme
  \/ Reinvoke

\* ------------------------------------------------------- initial states

Object(d) == [type |-> "object", obj |-> d]

Array == [type |-> "array"]

JsonFile(v) == [kind |-> "json", value |-> v]

BadFile(kind) == [kind |-> kind]

Entry(isdir, parsed) == [isdir |-> isdir, parsed |-> parsed]

NotDir == Entry(FALSE, <<>>)

EmptyDir == Entry(TRUE, <<>>)

DirWith(file) == Entry(TRUE, <<file>>)

LongCommit == <<"a", "b", "c", "d", "e", "f", "0", "1", "2">>

Sample(g, m) == [name |-> "bench", group |-> g, mean_ms |-> m, std_dev_ns |-> NsPerMs]

\* Three well-formed samples, one without "group", one without "std_dev_ns".
SampleSet ==
  {Sample("g1", 1), Sample("g1", 4), Sample("g2", 2),
   [name |-> "bench", mean_ms |-> 1, std_dev_ns |-> NsPerMs],
   [name |-> "bench", group |-> "g1", mean_ms |-> 1]}

BenchmarkLists == UNION {[1..n -> SampleSet] : n \in 0..MaxSamples}

\* Runs with every "benchmarks" list, with and without the run's own fields.
RichRuns ==
  {Object([timestamp |-> "t1", commit |-> LongCommit, benchmarks |-> b]) :
     b \in BenchmarkLists}
  \cup {Object([benchmarks |-> b]) : b \in BenchmarkLists}
  \cup {Object([timestamp |-> "t1", commit |-> LongCommit]), Object(<<>>)}

\* Runs told apart by their timestamp only.
PlainRun(ts) == Object([timestamp |-> ts, commit |-> LongCommit, benchmarks |-> <<>>])

PlainRuns == {PlainRun("t1"), PlainRun("t2"), Object([commit |-> LongCommit, benchmarks |-> <<>>])}

AbsentArchive == [kind |-> "absent", entries |-> <<>>]

FileArchive == [kind |-> "file", entries |-> <<>>]

\* The archive directories with at most maxEntries members drawn from entrySet.
Archives(entrySet, maxEntries) ==
  {[kind |-> "dir", entries |-> e] :
     e \in UNION {[D -> entrySet] :
                    D \in {D \in SUBSET Names : Cardinality(D) <= maxEntries}}}

NoLatest == [sentinel |-> FALSE, parsed |-> <<>>]

Latests(fileSet) ==
  {[sentinel |-> m, parsed |-> p] :
     m \in BOOLEAN, p \in {<<>>} \cup {<<f>> : f \in fileSet}}

InitOver(benchKinds, reportKinds, blockedSets, archives, latests, visSet) ==
  /\ benchDir \in benchKinds
  /\ vis \in visSet
  /\ IF benchDir = "dir"
       THEN /\ reports \in reportKinds
            /\ blocked \in (IF reports = "dir" THEN blockedSets ELSE {{}})
            /\ archive \in archives
            /\ latest \in latests
       ELSE /\ reports = "absent"
            /\ blocked = {}
            /\ archive = AbsentArchive
            /\ latest = NoLatest
  /\ files = <<>>
  /\ images = {}
  /\ clock = 0
  /\ pc = "start"
  /\ ranRun = FALSE
  /\ data = <<>>
  /\ trends_content = <<>>
  /\ html_content = <<>>
  /\ htmlAt = 0
  /\ exc = "none"
  /\ exitStatus = 0
  /\ invocation = 1
  /\ prev = NoCall

\* Every state of the benchmark directory, of reports/ and of the charting
\* capability; an archive of at most one subdirectory, holding any run.
Init ==
  InitOver({"absent", "file", "dir"}, {"absent", "file", "dir"},
           {{}, {"index.html"}, {"README.md"}},
           {AbsentArchive, FileArchive, [kind |-> "dir", entries |-> <<>>],
            [kind |-> "dir", entries |-> <<DirWith(JsonFile(Array))>>]}
             \cup {[kind |-> "dir", entries |-> <<DirWith(JsonFile(r))>>] :
                     r \in RichRuns},
           {NoLatest,
            [sentinel |-> TRUE, parsed |-> <<JsonFile(PlainRun("t1"))>>],
            [sentinel |-> TRUE,
             parsed |-> <<JsonFile(Object([timestamp |-> "t2",
                                           benchmarks |-> <<Sample("g2", 2)>>]))>>]},
           BOOLEAN)

Spec == Init /\ [][Next]_vars

\* Archives of up to MaxDirs members of every kind, with and without latest data.
InitLoad ==
  InitOver({"dir"}, {"absent"}, {{}},
           {AbsentArchive}
             \cup Archives({NotDir, EmptyDir, DirWith(BadFile("malformed")),
                            DirWith(BadFile("undecodable"))}
                             \cup {DirWith(JsonFile(r)) : r \in PlainRuns}, MaxDirs),
           Latests({BadFile("dangling")} \cup {JsonFile(r) : r \in PlainRuns}),
           {FALSE})

SpecLoad == InitLoad /\ [][Next]_vars

\* ----------------------------------------------------------------- claims

\* The i-th smallest member of a set of names.
NthSmallest(D, i) == CHOOSE n \in D : Cardinality({m \in D : m < n}) = i - 1

\* The archive members that are subdirectories whose *_parsed.json is valid JSON.
ValidSubdirs ==
  {n \in DOMAIN archive.entries :
     /\ archive.entries[n].isdir
     /\ archive.entries[n].parsed # <<>>
     /\ archive.entries[n].parsed[1].kind = "json"}

\* The archive members that are subdirectories whose *_parsed.json is malformed.
MalformedSubdirs ==
  {n \in DOMAIN archive.entries :
     /\ archive.entries[n].isdir
     /\ archive.entries[n].parsed # <<>>
     /\ archive.entries[n].parsed[1].kind = "malformed"}

\* The runs of the valid subdirectories, by ascending subdirectory name.
RunsInNameOrder ==
  [i \in 1..Cardinality(ValidSubdirs) |->
     archive.entries[NthSmallest(ValidSubdirs, i)].parsed[1].value]

NoLatestData == ~latest.sentinel \/ latest.parsed = <<>>

LatestRunRead ==
  /\ latest.sentinel
  /\ latest.parsed # <<>>
  /\ latest.parsed[1].kind = "json"

\* The timestamp of a run; a run without one reads as None.
TimestampOf(run) == IF "timestamp" \in DOMAIN run.obj THEN run.obj.timestamp ELSE None

LoadReturned == pc = "trends"

TrendsReturned == pc = "html"

HtmlReturned == html_content # <<>>

\* Every *_parsed.json under archive/ and latest/ holds a JSON object.
OnlyRunsOnDisk ==
  /\ archive.kind # "file"
  /\ \A n \in DOMAIN archive.entries :
       \A i \in DOMAIN archive.entries[n].parsed :
         /\ archive.entries[n].parsed[i].kind = "json"
         /\ IsObject(archive.entries[n].parsed[i].value)
  /\ \A i \in DOMAIN latest.parsed :
       /\ latest.parsed[i].kind = "json"
       /\ IsObject(latest.parsed[i].value)

\* C1: once run() has been invoked on an existing benchmark directory whose
\* archive and latest directories hold runs of any content (fields missing or
\* not, charting available or not), index.html and README.md both exist in
\* the reports directory.  (Nothing stands in the way of reports/ or of the
\* two files, and the charting library itself does not fail.)
C1_RunAlwaysProducesReports ==
  (/\ pc = "done"
   /\ ranRun
   /\ benchDir = "dir"
   /\ OnlyRunsOnDisk
   /\ reports # "file"
   /\ blocked = {}
   /\ exc # "ChartError")
  => /\ reports = "dir"
     /\ {"index.html", "README.md"} \subseteq DOMAIN files

C3_ArchiveInNameOrder ==
  (/\ LoadReturned
   /\ archive.kind = "dir"
   /\ ValidSubdirs = DOMAIN archive.entries
   /\ NoLatestData)
  => /\ Len(data) = Cardinality(DOMAIN archive.entries)
     /\ \A i \in 1..Len(data) :
          data[i] = archive.entries[NthSmallest(DOMAIN archive.entries, i)].parsed[1].value

\* C3 witness: two subdirectories with different runs were loaded.
C3_Witness ==
  /\ LoadReturned
  /\ archive.kind = "dir"
  /\ ValidSubdirs = DOMAIN archive.entries
  /\ NoLatestData
  /\ Len(data) = 2
  /\ data[1] # data[2]

\* C4: when the latest run is read, it is not appended if its timestamp equals
\* the timestamp of a run loaded from the archive (the result is the archive
\* runs), and otherwise it is appended as the last element.
C4_LatestMergedByTimestamp ==
  (LoadReturned /\ LatestRunRead)
  => LET latest_data == latest.parsed[1].value
     IN IF \E i \in DOMAIN RunsInNameOrder :
             TimestampOf(RunsInNameOrder[i]) = TimestampOf(latest_data)
          THEN data = RunsInNameOrder
          ELSE data = Append(RunsInNameOrder, latest_data)

\* C4 witness: the latest run repeats the timestamp of the second of two
\* archived runs and was not appended.
C4_Witness ==
  /\ LoadReturned
  /\ LatestRunRead
  /\ Len(data) = 2
  /\ Len(RunsInNameOrder) = 2
  /\ TimestampOf(data[1]) # TimestampOf(latest.parsed[1].value)
  /\ TimestampOf(data[2]) = TimestampOf(latest.parsed[1].value)

\* Nothing but malformed files is wrong with the archive: every member is a
\* subdirectory holding either a valid or a malformed *_parsed.json.
OnlyMalformedWrong ==
  /\ archive.kind = "dir"
  /\ ValidSubdirs \cup MalformedSubdirs = DOMAIN archive.entries

AllCharts == {ChartFiles[i] : i \in DOMAIN ChartFiles}

FourRefs ==
  <<"![Performance Trends](./performance_trends.png)\n", "\n",
    "![Group Performance](./group_performance.png)\n", "\n",
    "![Recent Changes](./recent_changes.png)\n", "\n",
    "![Performance Distribution](./performance_distribution.png)\n">>

\* Some run holds at least one benchmark sample.
HasSamples(runs) ==
  \E i \in DOMAIN runs :
    /\ IsObject(runs[i])
    /\ "benchmarks" \in DOMAIN runs[i].obj
    /\ runs[i].obj.benchmarks # <<>>

ReturnsFromTrends == pc = "trends" /\ pc' = "html"

SameSecond(t1, t2) == t1 \div TicksPerSecond = t2 \div TicksPerSecond

TwoCallsSameContent ==
  /\ prev.valid
  /\ HtmlReturned
  /\ prev.trends = trends_content

\* C7 as stated: two calls of generate_index_html with the same trends content
\* return the same page, whatever time passed between them.
C7_PureFunction == TwoCallsSameContent => html_content = prev.html

\* C7 amended: two calls of generate_index_html with the same trends content,
\* made within the same second of the wall clock, return the same page.
C7_SameWithinSecond ==
  (TwoCallsSameContent /\ SameSecond(prev.at, htmlAt)) => html_content = prev.html

\* C7 witness: two calls with the same content at different instants of one second.
C7_Witness ==
  /\ TwoCallsSameContent
  /\ prev.at # htmlAt
  /\ SameSecond(prev.at, htmlAt)
  /\ html_content = prev.html

\* C8: when the benchmark directory does not exist as main() starts, main()
\* creates it, empty, and returns at once with status 0: there is no reports
\* directory, no index.html, no README.md, and run() was not entered.
C8_MissingDirCreatedEmpty ==
  [][(pc = "start" /\ benchDir = "absent") =>
       /\ pc' = "done"
       /\ benchDir' = "dir"
       /\ archive'.kind = "absent"
       /\ latest' = NoLatest
       /\ reports' = "absent"
       /\ files' = <<>>
       /\ images' = {}
       /\ ~ranRun'
       /\ exitStatus' = 0]_vars

\* C8 witness: main() has returned from a first invocation without entering
\* run(), leaving an empty benchmark directory.
C8_Witness ==
  /\ pc = "done"
  /\ invocation = 1
  /\ ~ranRun
  /\ benchDir = "dir"
  /\ archive.kind = "absent"
  /\ reports = "absent"
  /\ files = <<>>

\* C9: every page generate_index_html returns contains the title text
\* 'LSPbridge Benchmark Dashboard' and, as an unbroken run, the trends content
\* it was given.
C9_TitleAndContentEmbedded ==
  HtmlReturned =>
    /\ Contains(html_content, <<"LSPbridge Benchmark Dashboard">>)
    /\ Contains(html_content, trends_content)

\* C9 witness: a page was made of a text summary with a per-group line.
C9_Witness ==
  /\ HtmlReturned
  /\ Contains(trends_content, <<"### Performance by Group">>)
  /\ Contains(html_content, trends_content)

\* C10: given zero runs, generate_performance_trends returns the text
\* "No benchmark data available for visualization.\n", charting available or
\* not, and writes no file.
C10_NoDataLiteral ==
  [][(pc = "trends" /\ data = <<>>) =>
       /\ pc' = "html"
       /\ trends_content' = <<"No benchmark data available for visualization.\n">>
       /\ files' = files
       /\ images' = images]_vars

\* C10 witness: charting is available, no run was loaded, and the text was returned.
C10_Witness ==
  /\ TrendsReturned
  /\ vis
  /\ data = <<>>
  /\ trends_content = <<"No benchmark data available for visualization.\n">>

====
